---- MODULE Spec2Model ----
(***************************************************************************)
(* Model of the audio-graph scheduler of src/src/index.ts: schedule(root)  *)
(* walks the graph depth first from the root, binds buffers to ports from  *)
(* a stack of reusable buffers, solves node latencies and input            *)
(* compensations, and appends one step per node to the order.              *)
(*                                                                         *)
(* The recursion of visit() is modelled by an explicit call stack: one     *)
(* frame per active call, with the position inside the call (pc) and the   *)
(* index of the port loop it is in (idx).                                  *)
(***************************************************************************)
EXTENDS Integers, Sequences, FiniteSets, TLC

(***************************************************************************)
(* Bounds of the explored inputs.                                          *)
(***************************************************************************)
MaxNodes == 3
MaxSize == 7
\* the depth of recursion at which the call stack of the engine is exhausted
MaxDepth == 6

(***************************************************************************)
(* Optional fields (buffer?, latency?, compensation?, connection?) that    *)
(* are not set read as undefined.                                          *)
(***************************************************************************)
Undefined == -1

NoConnection == [node |-> 0, port |-> ""]

\* Port names, by position, as the example graph names them.
InNames == <<"in1", "in2">>
OutNames == <<"out1", "out2">>

Port(n, c) == [name |-> n, connection |-> c, latency |-> Undefined,
               compensation |-> Undefined, buffer |-> Undefined]

Node(ins, outs, d) == [inputs |-> ins, outputs |-> outs, latency |-> Undefined,
                       delay |-> d, visited |-> FALSE]

HasConnection(port) == port.connection # NoConnection

VARIABLES
  nodes,        \* the graph: node id -> Node, with its transient fields
  root,         \* the node schedule() is called with
  order,        \* schedule(): let order
  bufferStack,  \* schedule(): let bufferStack
  created,      \* number of buffer objects created by acquireBuffer so far
  stack,        \* active calls of visit(), innermost last
  ret,          \* value returned by the visit() call that returned last
  done,         \* schedule() has returned order
  earlier,      \* the schedules returned by earlier calls of schedule(root)
  rendering,    \* render(): the step and the input binding its loops are at
  calls         \* render(): the calls of delay() and node.process() made so far

vars == <<nodes, root, order, bufferStack, created, stack, ret, done, earlier, rendering, calls>>

(***************************************************************************)
(* Numbers. A number read from an unset field is undefined, and Math.max,  *)
(* + and - on undefined give NaN.                                          *)
(***************************************************************************)
NaN == -2

IsNumber(x) == x # Undefined /\ x # NaN

MathMin(a, b) == IF IsNumber(a) /\ IsNumber(b) THEN (IF a <= b THEN a ELSE b) ELSE NaN

MathMax(a, b) == IF IsNumber(a) /\ IsNumber(b) THEN (IF a >= b THEN a ELSE b) ELSE NaN

\* the subtraction with its operands exchanged
MinusReversed(a, b) == IF IsNumber(a) /\ IsNumber(b) THEN b - a ELSE NaN

Minus(a, b) == IF IsNumber(a) /\ IsNumber(b) THEN a - b ELSE NaN

PlusNothing(a, b) == a

Plus(a, b) == IF IsNumber(a) /\ IsNumber(b) THEN a + b ELSE NaN

(***************************************************************************)
(* The buffer stack. A buffer object is known by the number it was created *)
(* with: the k-th object created by `return {}` is k.                      *)
(***************************************************************************)
\* a pop that leaves the buffer in the pool
acquireKept(bs, n) ==
  IF Len(bs) = 0
    THEN [buffer |-> n + 1, bufferStack |-> bs, created |-> n + 1]
    ELSE [buffer |-> bs[Len(bs)], bufferStack |-> bs, created |-> n]

\* a pool that hands out its oldest entry
acquireOldest(bs, n) ==
  IF Len(bs) = 0
    THEN [buffer |-> n + 1, bufferStack |-> bs, created |-> n + 1]
    ELSE [buffer |-> bs[1], bufferStack |-> SubSeq(bs, 2, Len(bs)), created |-> n]

acquireBuffer(bs, n) ==
  IF Len(bs) = 0
    THEN [buffer |-> n + 1, bufferStack |-> bs, created |-> n + 1]
    ELSE [buffer |-> bs[Len(bs)], bufferStack |-> SubSeq(bs, 1, Len(bs) - 1), created |-> n]

\* a release that pushes the buffer twice
releaseTwice(bs, buffer) == Append(Append(bs, buffer), buffer)

releaseBuffer(bs, buffer) == Append(bs, buffer)

(***************************************************************************)
(* Pure parts of visit().                                                  *)
(***************************************************************************)
\* outputs.find((assn) => assn.port === name)?.buffer
FindBuffer(outputs, name) ==
  LET hits == {k \in DOMAIN outputs : outputs[k].port = name}
  IN IF hits = {} THEN Undefined
     ELSE outputs[CHOOSE k \in hits : \A h \in hits : k <= h].buffer

\* node.inputs.map((port) => port.latency).reduce((prev, curr) => Math.max(prev, curr), 0)
RECURSIVE ReduceMax(_, _, _)
ReduceMax(ports, k, prev) ==
  IF k > Len(ports) THEN prev
  ELSE ReduceMax(ports, k + 1, MathMax(prev, ports[k].latency))

MaxInputLatency(node) == ReduceMax(node.inputs, 1, 0)

\* the loop without its test: a zero compensation is stored too
CompensatedAlways(node) ==
  LET m == MaxInputLatency(node)
  IN [k \in DOMAIN node.inputs |->
        [node.inputs[k] EXCEPT !.compensation = Minus(m, node.inputs[k].latency)]]

\* the loop "compute input compensations"
Compensated(node) ==
  LET m == MaxInputLatency(node)
  IN [k \in DOMAIN node.inputs |->
        LET compensation == Minus(m, node.inputs[k].latency)
        IN IF compensation # 0
             THEN [node.inputs[k] EXCEPT !.compensation = compensation]
             ELSE node.inputs[k]]

InputAssignments(ports) ==
  [k \in DOMAIN ports |-> [port |-> ports[k].name, buffer |-> ports[k].buffer,
                           compensation |-> ports[k].compensation]]

OutputAssignments(ports) ==
  [k \in DOMAIN ports |-> [port |-> ports[k].name, buffer |-> ports[k].buffer]]

\* order.push({ node, inputs, outputs })
PushFront(steps, n, node) ==
  <<[node |-> n, inputs |-> InputAssignments(node.inputs),
     outputs |-> OutputAssignments(node.outputs)]>> \o steps

Push(steps, n, node) ==
  Append(steps, [node |-> n, inputs |-> InputAssignments(node.inputs),
                 outputs |-> OutputAssignments(node.outputs)])

\* the value visit() returns
Returned(node) ==
  [latency |-> node.latency,
   outputs |-> [k \in DOMAIN node.outputs |->
                  [port |-> IF HasConnection(node.outputs[k])
                              THEN node.outputs[k].connection.port ELSE "",
                   buffer |-> node.outputs[k].buffer]]]

(***************************************************************************)
(* Positions inside visit(): a loop over no ports is skipped.              *)
(***************************************************************************)
ReleaseFrom(node, i) ==
  IF i <= Len(node.outputs) THEN [pc |-> "release", idx |-> i] ELSE [pc |-> "finish", idx |-> 0]

\* the input loop without its advance: the same port is handled again
InputsAgain(node, i) ==
  IF i > 1 THEN [pc |-> "input", idx |-> i - 1]
  ELSE IF i <= Len(node.inputs) THEN [pc |-> "input", idx |-> i] ELSE ReleaseFrom(node, 1)

InputsFrom(node, i) ==
  IF i <= Len(node.inputs) THEN [pc |-> "input", idx |-> i] ELSE ReleaseFrom(node, 1)

AcquireFrom(node, i) ==
  IF i <= Len(node.outputs) THEN [pc |-> "acquire", idx |-> i] ELSE InputsFrom(node, 1)

Frame(n, at) == [node |-> n, pc |-> at.pc, idx |-> at.idx]

Top == stack[Len(stack)]

\* the stack with the innermost call moved to the position `at`
Goto(at) == [stack EXCEPT ![Len(stack)] = Frame(Top.node, at)]

Running == Len(stack) > 0

(***************************************************************************)
(* visit(node), statement by statement.                                    *)
(***************************************************************************)
\* Enter without the visited guard
EnterUnguarded ==
  /\ Running /\ Top.pc = "enter"
  /\ stack' = Goto(AcquireFrom(nodes[Top.node], 1))
  /\ UNCHANGED <<nodes, root, order, bufferStack, created, ret, done, earlier, rendering, calls>>

\* if (!node.visited): a visited node goes straight to the return statement
Enter ==
  /\ Running /\ Top.pc = "enter"
  /\ stack' = IF nodes[Top.node].visited
                THEN Goto([pc |-> "return", idx |-> 0])
                ELSE Goto(AcquireFrom(nodes[Top.node], 1))
  /\ UNCHANGED <<nodes, root, order, bufferStack, created, ret, done, earlier, rendering, calls>>

\* output.buffer = acquireBuffer()
AcquireOutput ==
  /\ Running /\ Top.pc = "acquire"
  /\ LET n == Top.node
         a == acquireBuffer(bufferStack, created)
     IN /\ nodes' = [nodes EXCEPT ![n].outputs[Top.idx].buffer = a.buffer]
        /\ bufferStack' = a.bufferStack
        /\ created' = a.created
        /\ stack' = Goto(AcquireFrom(nodes[n], Top.idx + 1))
  /\ UNCHANGED <<root, order, ret, done, earlier, rendering, calls>>

\* if (input.connection): visit(input.connection.node) is called
CallUpstream ==
  /\ Running /\ Top.pc = "input"
  /\ HasConnection(nodes[Top.node].inputs[Top.idx])
  /\ Len(stack) < MaxDepth
  /\ stack' = Append(Goto([pc |-> "bind", idx |-> Top.idx]),
                     [node |-> nodes[Top.node].inputs[Top.idx].connection.node,
                      pc |-> "enter", idx |-> 0])
  /\ UNCHANGED <<nodes, root, order, bufferStack, created, ret, done, earlier, rendering, calls>>

\* the recursion is too deep for the call stack: the RangeError ends visit() and
\* schedule() without a returned schedule, and render() is not called
StackOverflow ==
  /\ Running /\ Top.pc = "input"
  /\ HasConnection(nodes[Top.node].inputs[Top.idx])
  /\ Len(stack) >= MaxDepth
  /\ stack' = <<>>
  /\ done' = FALSE
  /\ UNCHANGED <<nodes, root, order, bufferStack, created, ret, earlier, rendering, calls>>

\* the call has returned {latency, outputs}: find the buffer, set latency and buffer
BindInput ==
  /\ Running /\ Top.pc = "bind"
  /\ LET n == Top.node
         input == nodes[n].inputs[Top.idx]
     IN /\ nodes' = [nodes EXCEPT ![n].inputs[Top.idx] =
                       [input EXCEPT !.latency = ret.latency,
                                     !.buffer = FindBuffer(ret.outputs, input.name)]]
        /\ stack' = Goto(InputsFrom(nodes[n], Top.idx + 1))
  /\ UNCHANGED <<root, order, bufferStack, created, ret, done, earlier, rendering, calls>>

\* the else branch without its releaseBuffer(input.buffer)
UnconnectedInputKept ==
  /\ Running /\ Top.pc = "input"
  /\ ~HasConnection(nodes[Top.node].inputs[Top.idx])
  /\ LET n == Top.node
         input == nodes[n].inputs[Top.idx]
         a == acquireBuffer(bufferStack, created)
     IN /\ nodes' = [nodes EXCEPT ![n].inputs[Top.idx] =
                       [input EXCEPT !.latency = 0, !.buffer = a.buffer]]
        /\ bufferStack' = a.bufferStack
        /\ created' = a.created
        /\ stack' = Goto(InputsFrom(nodes[n], Top.idx + 1))
  /\ UNCHANGED <<root, order, ret, done, earlier, rendering, calls>>

\* else: latency 0, acquire a buffer and release it immediately
UnconnectedInput ==
  /\ Running /\ Top.pc = "input"
  /\ ~HasConnection(nodes[Top.node].inputs[Top.idx])
  /\ LET n == Top.node
         input == nodes[n].inputs[Top.idx]
         a == acquireBuffer(bufferStack, created)
     IN /\ nodes' = [nodes EXCEPT ![n].inputs[Top.idx] =
                       [input EXCEPT !.latency = 0, !.buffer = a.buffer]]
        /\ bufferStack' = releaseBuffer(a.bufferStack, a.buffer)
        /\ created' = a.created
        /\ stack' = Goto(InputsFrom(nodes[n], Top.idx + 1))
  /\ UNCHANGED <<root, order, ret, done, earlier, rendering, calls>>

\* the release loop without its releaseBuffer(output.buffer)
ReleaseOutputSkipped ==
  /\ Running /\ Top.pc = "release"
  /\ stack' = Goto(ReleaseFrom(nodes[Top.node], Top.idx + 1))
  /\ UNCHANGED <<nodes, root, order, bufferStack, created, ret, done, earlier, rendering, calls>>

\* releaseBuffer(output.buffer)
ReleaseOutput ==
  /\ Running /\ Top.pc = "release"
  /\ bufferStack' = releaseBuffer(bufferStack, nodes[Top.node].outputs[Top.idx].buffer)
  /\ stack' = Goto(ReleaseFrom(nodes[Top.node], Top.idx + 1))
  /\ UNCHANGED <<nodes, root, order, created, ret, done, earlier, rendering, calls>>

\* the end of the first visit without node.visited = true
FinishUnmarked ==
  /\ Running /\ Top.pc = "finish"
  /\ LET n == Top.node
         node == nodes[n]
         solved == [node EXCEPT !.inputs = Compensated(node),
                                !.latency = Plus(MaxInputLatency(node), node.delay)]
     IN /\ order' = Push(order, n, solved)
        /\ nodes' = [nodes EXCEPT ![n] = solved]
  /\ stack' = Goto([pc |-> "return", idx |-> 0])
  /\ UNCHANGED <<root, bufferStack, created, ret, done, earlier, rendering, calls>>

\* max latency, compensations, node.latency, order.push, node.visited = true
Finish ==
  /\ Running /\ Top.pc = "finish"
  /\ LET n == Top.node
         node == nodes[n]
         solved == [node EXCEPT !.inputs = Compensated(node),
                                !.latency = Plus(MaxInputLatency(node), node.delay)]
     IN /\ order' = Push(order, n, solved)
        /\ nodes' = [nodes EXCEPT ![n] = [solved EXCEPT !.visited = TRUE]]
  /\ stack' = Goto([pc |-> "return", idx |-> 0])
  /\ UNCHANGED <<root, bufferStack, created, ret, done, earlier, rendering, calls>>

\* return {latency, outputs}; when visit(root) returns, schedule() returns order
Return ==
  /\ Running /\ Top.pc = "return"
  /\ ret' = Returned(nodes[Top.node])
  /\ stack' = SubSeq(stack, 1, Len(stack) - 1)
  /\ done' = (Len(stack) = 1)
  /\ UNCHANGED <<nodes, root, order, bufferStack, created, earlier, rendering, calls>>

(***************************************************************************)
(* render(schedule), called with the schedule that schedule(root) returned *)
(***************************************************************************)
\* if (compensation) with the test left out
Always(compensation) == TRUE

\* if (compensation): undefined, NaN and 0 are falsy
Truthy(compensation) == compensation # Undefined /\ compensation # NaN /\ compensation # 0

\* one turn of the inner loop: delay(buffer, compensation) if (compensation)
RenderInput ==
  /\ done
  /\ rendering.step <= Len(order)
  /\ rendering.input <= Len(order[rendering.step].inputs)
  /\ LET assn == order[rendering.step].inputs[rendering.input]
     IN calls' = IF Truthy(assn.compensation)
                   THEN Append(calls, [op |-> "delay", step |-> rendering.step,
                                       input |-> rendering.input, buffer |-> assn.buffer,
                                       amount |-> assn.compensation])
                   ELSE calls
  /\ rendering' = [rendering EXCEPT !.input = rendering.input + 1]
  /\ UNCHANGED <<nodes, root, order, bufferStack, created, stack, ret, done, earlier>>

\* node.process(inputs, outputs), and on to the next step
RenderProcess ==
  /\ done
  /\ rendering.step <= Len(order)
  /\ rendering.input > Len(order[rendering.step].inputs)
  /\ calls' = Append(calls, [op |-> "process", step |-> rendering.step, input |-> 0,
                             buffer |-> Undefined, amount |-> Undefined])
  /\ rendering' = [step |-> rendering.step + 1, input |-> 1]
  /\ UNCHANGED <<nodes, root, order, bufferStack, created, stack, ret, done, earlier>>

Next ==
  \/ Enter
  \/ AcquireOutput
  \/ CallUpstream
  \/ BindInput
  \/ UnconnectedInput
  \/ ReleaseOutput
  \/ Finish
  \/ Return
  \/ RenderInput
  \/ RenderProcess

(***************************************************************************)
(* The graphs schedule() is run on: every graph of at most MaxNodes nodes  *)
(* and of size at most MaxSize, the size of a graph being the number of    *)
(* its ports plus the sum of its delays. Nodes are numbered so that an     *)
(* input connects to a node of a lower number, which makes the graph       *)
(* acyclic, and every node but the last feeds some later node, so that     *)
(* the last node is a root reachable from all nodes. schedule() is run     *)
(* from any node: the nodes downstream of it are the unreachable ones.     *)
(***************************************************************************)
RECURSIVE GraphSize(_)
GraphSize(g) ==
  IF g = <<>> THEN 0
  ELSE LET n == g[Len(g)]
       IN Len(n.inputs) + Len(n.outputs) + n.delay + GraphSize(SubSeq(g, 1, Len(g) - 1))

\* the output ports of the nodes of g, as an input's connection names them
Upstreams(g) ==
  UNION {{[node |-> j, port |-> g[j].outputs[p].name] : p \in DOMAIN g[j].outputs} :
         j \in DOMAIN g}

\* the sequences of at most `most` input ports, each unconnected or connected upstream
InputPorts(g, most) ==
  UNION {{[k \in 1..m |-> Port(InNames[k], f[k])] :
          f \in [1..m -> {NoConnection} \cup Upstreams(g)]} : m \in 0..most}

OutputPorts(most) ==
  {[k \in 1..m |-> Port(OutNames[k], NoConnection)] : m \in 0..most}

Least(a, b) == IF a <= b THEN a ELSE b

\* the nodes of at most `size` ports and units of delay that can follow the nodes g
NodesAfter(g, size) ==
  UNION {UNION {{Node(ins, outs, d) : d \in 0..(size - Len(ins) - Len(outs))} :
                outs \in OutputPorts(Least(Len(OutNames), size - Len(ins)))} :
         ins \in InputPorts(g, Least(Len(InNames), size))}

\* the nodes of g, but the last, that no input is connected to
Unfed(g) ==
  {j \in 1..(Len(g) - 1) :
     \A i \in (j + 1)..Len(g) : \A k \in DOMAIN g[i].inputs : g[i].inputs[k].connection.node # j}

\* g can still grow into a graph of n nodes within the size: every node that feeds
\* no node yet, the last one included, takes one more input port of a later node
Feasible(g, n, size) ==
  LET unfed == Cardinality(Unfed(g))
  IN IF Len(g) = n THEN unfed = 0
     ELSE /\ GraphSize(g) + unfed + 1 <= size
          /\ unfed + 1 <= Len(InNames) * (n - Len(g))

\* the graphs of n nodes and at most `size` that begin with the nodes g
RECURSIVE Wirings(_, _, _)
Wirings(g, n, size) ==
  IF Len(g) = n THEN {g}
  ELSE UNION {Wirings(Append(g, node), n, size) :
              node \in {node \in NodesAfter(g, size - GraphSize(g)) :
                          Feasible(Append(g, node), n, size)}}

\* the input ports connected to output `name` of node j
Consumers(g, j, name) ==
  UNION {{[node |-> i, port |-> g[i].inputs[k].name] :
          k \in {k \in DOMAIN g[i].inputs :
                   g[i].inputs[k].connection = [node |-> j, port |-> name]}} :
         i \in DOMAIN g}

\* an output's own connection names one of the inputs connected to it
OutputConnections(g, j, name) ==
  IF Consumers(g, j, name) = {} THEN {NoConnection} ELSE Consumers(g, j, name)

ConnectedOutputs(g, j) ==
  LET outs == g[j].outputs
      all == UNION {OutputConnections(g, j, outs[p].name) : p \in DOMAIN outs}
  IN {[p \in DOMAIN outs |-> [outs[p] EXCEPT !.connection = f[p]]] :
      f \in {f \in [DOMAIN outs -> all] :
               \A p \in DOMAIN outs : f[p] \in OutputConnections(g, j, outs[p].name)}}

DoublyLinked(g) ==
  LET all == UNION {ConnectedOutputs(g, j) : j \in DOMAIN g}
  IN {[j \in DOMAIN g |-> [g[j] EXCEPT !.outputs = h[j]]] :
      h \in {h \in [DOMAIN g -> all] : \A j \in DOMAIN g : h[j] \in ConnectedOutputs(g, j)}}

SmallGraphs ==
  UNION {UNION {DoublyLinked(g) : g \in Wirings(<<>>, n, MaxSize)} : n \in 1..MaxNodes}

(***************************************************************************)
(* The graph of the example: source (1) feeds Left (2) and Right (3),      *)
(* which feed Sink (4).                                                    *)
(***************************************************************************)
Connected(port, n, name) == [port EXCEPT !.connection = [node |-> n, port |-> name]]

ExampleGraph ==
  <<Node(<<>>,
         <<Connected(Port("out1", NoConnection), 2, "in1"),
           Connected(Port("out2", NoConnection), 3, "in1")>>, 0),
    Node(<<Connected(Port("in1", NoConnection), 1, "out1")>>,
         <<Connected(Port("out1", NoConnection), 4, "in1")>>, 1),
    Node(<<Connected(Port("in1", NoConnection), 1, "out2")>>,
         <<Connected(Port("out1", NoConnection), 4, "in2")>>, 2),
    Node(<<Connected(Port("in1", NoConnection), 2, "out1"),
           Connected(Port("in2", NoConnection), 3, "out2")>>,
         <<>>, 0)>>

Graphs == SmallGraphs \cup {ExampleGraph}

\* schedule(root) is called: order and bufferStack are empty, visit(root) is entered
Init ==
  /\ nodes \in Graphs
  /\ root \in DOMAIN nodes
  /\ order = <<>>
  /\ bufferStack = <<>>
  /\ created = 0
  /\ stack = <<[node |-> root, pc |-> "enter", idx |-> 0]>>
  /\ ret = [latency |-> Undefined, outputs |-> <<>>]
  /\ done = FALSE
  /\ earlier = <<>>
  /\ rendering = [step |-> 1, input |-> 1]
  /\ calls = <<>>

Spec == Init /\ [][Next]_vars

\* the program is one thread that runs to completion: a step that can be taken is taken
FairSpec == Spec /\ WF_vars(Next)

(***************************************************************************)
(* Vocabulary of the properties.                                           *)
(***************************************************************************)
\* the graph with its transient fields cleared: what was handed to schedule()
ResetPort(port) == Port(port.name, port.connection)

Reset(g) ==
  [j \in DOMAIN g |-> Node([k \in DOMAIN g[j].inputs |-> ResetPort(g[j].inputs[k])],
                           [k \in DOMAIN g[j].outputs |-> ResetPort(g[j].outputs[k])],
                           g[j].delay)]

IsExample == Reset(nodes) = ExampleGraph /\ root = 4

\* the nodes the inputs of node n are connected to
Sources(g, n) ==
  {g[n].inputs[k].connection.node :
     k \in {k \in DOMAIN g[n].inputs : HasConnection(g[n].inputs[k])}}

RECURSIVE UpstreamClosure(_, _)
UpstreamClosure(g, S) ==
  LET T == S \cup UNION {Sources(g, n) : n \in S}
  IN IF T = S THEN S ELSE UpstreamClosure(g, T)

\* the nodes node n transitively depends on through its inputs' connections
Ancestors(g, n) == UpstreamClosure(g, Sources(g, n))

\* the nodes reachable from the root by following input connections upstream
Reachable == {root} \cup Ancestors(nodes, root)

\* the positions of the steps of node n in the schedule
StepsOf(n) == {q \in DOMAIN order : order[q].node = n}

(***************************************************************************)
(* Graphs with feedback: an acyclic graph in which one unconnected input   *)
(* is connected to an output of its own node or of a node downstream.      *)
(***************************************************************************)
\* g with input k of node j connected to output p of node i
Feedback(g, j, k, i, p) ==
  [g EXCEPT ![j].inputs[k].connection = [node |-> i, port |-> g[i].outputs[p].name],
            ![i].outputs[p].connection =
               IF g[i].outputs[p].connection = NoConnection
                 THEN [node |-> j, port |-> g[j].inputs[k].name]
                 ELSE g[i].outputs[p].connection]

FeedbackGraphs(g) ==
  UNION {UNION {UNION {{Feedback(g, j, k, i, p) : p \in DOMAIN g[i].outputs} :
                       i \in {i \in DOMAIN g : i = j \/ j \in Ancestors(g, i)}} :
                k \in {k \in DOMAIN g[j].inputs : ~HasConnection(g[j].inputs[k])}} :
         j \in DOMAIN g}

CyclicGraphs == UNION {FeedbackGraphs(g) : g \in SmallGraphs}

InitCyclic ==
  /\ nodes \in CyclicGraphs
  /\ root \in DOMAIN nodes
  /\ order = <<>>
  /\ bufferStack = <<>>
  /\ created = 0
  /\ stack = <<[node |-> root, pc |-> "enter", idx |-> 0]>>
  /\ ret = [latency |-> Undefined, outputs |-> <<>>]
  /\ done = FALSE
  /\ earlier = <<>>
  /\ rendering = [step |-> 1, input |-> 1]
  /\ calls = <<>>

NextCyclic == Next \/ StackOverflow

SpecCyclic == InitCyclic /\ [][NextCyclic]_vars

\* a node reachable from the root is upstream of itself
CycleReachable == \E n \in Reachable : n \in Ancestors(nodes, n)

(***************************************************************************)
(* A second schedule(root) on the same graph: the caller clears the        *)
(* transient fields, and the call starts with its own order and            *)
(* bufferStack; the buffers it creates are new objects.                    *)
(***************************************************************************)
\* the steps of the first call left in place
KeptOrder(steps) == steps

\* let order: Scheduled[] = []
NewOrder(steps) == <<>>

Rerun ==
  /\ done
  /\ earlier = <<>>
  /\ earlier' = <<order>>
  /\ nodes' = Reset(nodes)
  /\ order' = NewOrder(order)
  /\ bufferStack' = <<>>
  /\ stack' = <<[node |-> root, pc |-> "enter", idx |-> 0]>>
  /\ ret' = [latency |-> Undefined, outputs |-> <<>>]
  /\ done' = FALSE
  /\ rendering' = [step |-> 1, input |-> 1]
  /\ calls' = <<>>
  /\ UNCHANGED <<root, created>>

NextTwice == Next \/ Rerun

SpecTwice == Init /\ [][NextTwice]_vars

\* a second schedule(root) on the graph as the first call left it
ScheduleAgain ==
  /\ done
  /\ earlier = <<>>
  /\ earlier' = <<order>>
  /\ order' = NewOrder(order)
  /\ bufferStack' = <<>>
  /\ stack' = <<[node |-> root, pc |-> "enter", idx |-> 0]>>
  /\ ret' = [latency |-> Undefined, outputs |-> <<>>]
  /\ done' = FALSE
  /\ rendering' = [step |-> 1, input |-> 1]
  /\ calls' = <<>>
  /\ UNCHANGED <<nodes, root, created>>

NextAgain == Next \/ ScheduleAgain

SpecAgain == Init /\ [][NextAgain]_vars

\* the bindings of a schedule: <<step, "in" or "out", position>>
Bindings(steps) ==
  UNION {{<<q, "in", k>> : k \in DOMAIN steps[q].inputs} \cup
         {<<q, "out", k>> : k \in DOMAIN steps[q].outputs} : q \in DOMAIN steps}

BufferAt(steps, b) ==
  IF b[2] = "in" THEN steps[b[1]].inputs[b[3]].buffer
                 ELSE steps[b[1]].outputs[b[3]].buffer

NodeSequence(steps) == [q \in DOMAIN steps |-> steps[q].node]

SamePattern(a, b) ==
  /\ Bindings(a) = Bindings(b)
  /\ \A x, y \in Bindings(a) :
       (BufferAt(a, x) = BufferAt(a, y)) <=> (BufferAt(b, x) = BufferAt(b, y))

(***************************************************************************)
(* C1. In the schedule schedule(root) returns for an acyclic graph, the    *)
(* step of a node comes strictly after the step of every node it           *)
(* transitively depends on through its inputs' connections.                *)
(***************************************************************************)
C1_TopologicalOrder ==
  done => \A q \in DOMAIN order :
            \A m \in Ancestors(nodes, order[q].node) :
              /\ \E p \in 1..(q - 1) : order[p].node = m
              /\ \A p \in StepsOf(m) : p < q

\* a schedule was returned in which a step depends on a node two connections upstream
C1_Witness ==
  /\ done
  /\ \E q \in DOMAIN order :
       \E m \in Sources(nodes, order[q].node) : Sources(nodes, m) # {}

(***************************************************************************)
(* C2. For an acyclic graph whose nodes all start unvisited, the returned  *)
(* schedule has exactly one step for each node reachable from the root     *)
(* upstream, also for a node reached along several paths, and no step for  *)
(* any other node.                                                         *)
(***************************************************************************)
C2_OneStepPerReachableNode ==
  done => \A n \in DOMAIN nodes :
            Cardinality(StepsOf(n)) = (IF n \in Reachable THEN 1 ELSE 0)

\* the input ports of reachable nodes that are connected to node m
InputsInto(m) ==
  UNION {{<<a, k>> : k \in {k \in DOMAIN nodes[a].inputs :
                             nodes[a].inputs[k].connection.node = m}} : a \in Reachable}

\* a schedule was returned for a graph in which two inputs of reachable nodes are
\* connected to the same node, and some node is not reachable from the root
C2_Witness ==
  /\ done
  /\ \E n \in DOMAIN nodes : n \notin Reachable
  /\ \E m \in Reachable : Cardinality(InputsInto(m)) >= 2

\* the output ports of node n that are named `name`
OutputsNamed(n, name) == {p \in DOMAIN nodes[n].outputs : nodes[n].outputs[p].name = name}

\* input k of the step at q is bound to the buffer that the step of the upstream
\* node binds to the output port the input's connection names
BoundToNamedOutput(q, k) ==
  LET c == nodes[order[q].node].inputs[k].connection
  IN \A s \in StepsOf(c.node) : \A p \in OutputsNamed(c.node, c.port) :
       order[q].inputs[k].buffer = order[s].outputs[p].buffer

ConnectedInputs(n) == {k \in DOMAIN nodes[n].inputs : HasConnection(nodes[n].inputs[k])}

(***************************************************************************)
(* C3. Every connected input of every scheduled node that is bound to a    *)
(* buffer is bound to the buffer that the upstream node's step binds to    *)
(* the output port the input's connection names (connection.port on        *)
(* connection.node), also when the upstream node has several outputs that  *)
(* feed inputs of the same name on different consumers.                    *)
(***************************************************************************)
C3_InputBoundToNamedOutput ==
  done => \A q \in DOMAIN order : \A k \in ConnectedInputs(order[q].node) :
            order[q].inputs[k].buffer # Undefined => BoundToNamedOutput(q, k)

\* the inputs <<a, k>> of scheduled nodes that are connected to output p of node j
ConsumersOf(j, p) ==
  UNION {{<<a, k>> : k \in {k \in DOMAIN nodes[a].inputs :
                             nodes[a].inputs[k].connection =
                               [node |-> j, port |-> nodes[j].outputs[p].name]}} :
         a \in {a \in DOMAIN nodes : StepsOf(a) # {}}}

(***************************************************************************)
(* C4. When one output port is named as the upstream connection of inputs  *)
(* on two different downstream nodes, the upstream node is scheduled       *)
(* exactly once and both downstream steps bind that input to the buffer    *)
(* the upstream step binds to the output.                                  *)
(***************************************************************************)
C4_FanOutSharesBuffer ==
  done => \A j \in DOMAIN nodes : \A p \in DOMAIN nodes[j].outputs :
            \A x, y \in ConsumersOf(j, p) :
              x[1] # y[1] =>
                /\ Cardinality(StepsOf(j)) = 1
                /\ \A s \in StepsOf(j) : \A c \in {x, y} : \A q \in StepsOf(c[1]) :
                     order[q].inputs[c[2]].buffer = order[s].outputs[p].buffer

(***************************************************************************)
(* C5. Every input binding and every output binding of every step of the   *)
(* returned schedule names a defined buffer.                               *)
(***************************************************************************)
C5_AllBindingsResolved ==
  done => \A q \in DOMAIN order :
            /\ \A k \in DOMAIN order[q].inputs : order[q].inputs[k].buffer # Undefined
            /\ \A k \in DOMAIN order[q].outputs : order[q].outputs[k].buffer # Undefined

\* visit() is about to bind a connected input and find() has no matching entry
LookupMisses ==
  /\ Running /\ Top.pc = "bind"
  /\ FindBuffer(ret.outputs, nodes[Top.node].inputs[Top.idx].name) = Undefined

(***************************************************************************)
(* C6. When the lookup for a connected input finds no matching entry among *)
(* the upstream node's reported outputs, schedule(root) fails as a whole:  *)
(* the call ends there and no schedule is returned.                        *)
(***************************************************************************)
C6_MissingLookupFails ==
  [][LookupMisses => (~Running' /\ ~done')]_vars

\* the position of the step of a scheduled node
StepOf(n) == CHOOSE q \in DOMAIN order : order[q].node = n

\* the last step that reads output p of node j, or its own step when none reads it
LastUse(j, p) ==
  LET uses == {StepOf(j)} \cup {StepOf(c[1]) : c \in ConsumersOf(j, p)}
  IN CHOOSE u \in uses : \A v \in uses : v <= u

\* the edges that hold data while step q is rendered: the outputs written at or
\* before q and still to be read at or after q, and the unconnected inputs of q
LiveAt(q) ==
  UNION {{<<j, p>> : p \in {p \in DOMAIN nodes[j].outputs :
                              StepOf(j) <= q /\ q <= LastUse(j, p)}} :
         j \in {j \in DOMAIN nodes : StepsOf(j) # {}}}

LiveCount(q) ==
  Cardinality(LiveAt(q)) +
  Cardinality(DOMAIN nodes[order[q].node].inputs \ ConnectedInputs(order[q].node))

MaxLiveEdges ==
  LET counts == {LiveCount(q) : q \in DOMAIN order}
  IN CHOOSE m \in counts : \A c \in counts : c <= m

(***************************************************************************)
(* C7. The number of distinct buffers created during one schedule(root)    *)
(* pass never exceeds the graph's maximum number of simultaneously live    *)
(* edges; on a linear chain it stays at that bound however long the chain. *)
(***************************************************************************)
C7_BuffersWithinLiveEdges ==
  done => created <= MaxLiveEdges

\* the latency of input k of node n: that of its upstream node, 0 when unconnected
InputLatency(n, k) ==
  IF HasConnection(nodes[n].inputs[k])
    THEN nodes[nodes[n].inputs[k].connection.node].latency
    ELSE 0

Greatest(S) == CHOOSE m \in S : \A x \in S : x <= m

\* max(0, latency of each input of node n)
GreatestInputLatency(n) ==
  Greatest({0} \cup {InputLatency(n, k) : k \in DOMAIN nodes[n].inputs})

\* the chain A (delay 1) -> B (delay 2) -> sink (delay 0)
ChainExample ==
  <<Node(<<>>, <<Connected(Port("out1", NoConnection), 2, "in1")>>, 1),
    Node(<<Connected(Port("in1", NoConnection), 1, "out1")>>,
         <<Connected(Port("out1", NoConnection), 3, "in1")>>, 2),
    Node(<<Connected(Port("in1", NoConnection), 2, "out1")>>, <<>>, 0)>>

IsChainExample == Reset(nodes) = ChainExample /\ root = 3

(***************************************************************************)
(* C8. After schedule(root) on an acyclic graph with non-negative delays,  *)
(* every scheduled node has latency = max(0, latencies of its inputs) +    *)
(* its delay, an input's latency being that of its upstream node, or 0     *)
(* when unconnected; for the chain A(1) -> B(2) -> sink(0) compiled from   *)
(* sink the latencies are 1, 3 and 3.                                      *)
(***************************************************************************)
C8_LatencyRecurrence ==
  done =>
    /\ \A q \in DOMAIN order :
         LET n == order[q].node
         IN nodes[n].latency = GreatestInputLatency(n) + nodes[n].delay
    /\ IsChainExample =>
         nodes[1].latency = 1 /\ nodes[2].latency = 3 /\ nodes[3].latency = 3

\* the chain of the example has been scheduled from its sink
C8_Witness == done /\ IsChainExample /\ Len(order) = 3

(***************************************************************************)
(* C9. In every step of a schedule compiled from a freshly reset graph,    *)
(* the compensation of an input binding is the node's maximum input        *)
(* latency minus that input's latency when the difference is not zero, and *)
(* is absent (not the number 0) when it is zero.                           *)
(***************************************************************************)
C9_Compensation ==
  done => \A q \in DOMAIN order : \A k \in DOMAIN order[q].inputs :
            LET n == order[q].node
                difference == GreatestInputLatency(n) - InputLatency(n, k)
            IN order[q].inputs[k].compensation =
                 (IF difference # 0 THEN difference ELSE Undefined)

\* a returned step has one input with a compensation and one without
C9_Witness ==
  /\ done
  /\ \E q \in DOMAIN order : \E k, l \in DOMAIN order[q].inputs :
       /\ order[q].inputs[k].compensation > 0
       /\ order[q].inputs[l].compensation = Undefined

(***************************************************************************)
(* C10. For the diamond of the example (source feeds Left, delay 1, and    *)
(* Right, delay 2, which both feed Sink) compiled from Sink: the order is  *)
(* source, Left, Right, Sink; Sink's input from Left has compensation 1,   *)
(* its input from Right has none, and the latency of Sink is 2.            *)
(***************************************************************************)
C10_Diamond ==
  (done /\ IsExample) =>
    /\ [q \in DOMAIN order |-> order[q].node] = <<1, 2, 3, 4>>
    /\ order[4].inputs[1].compensation = 1
    /\ order[4].inputs[2].compensation = Undefined
    /\ nodes[4].latency = 2

\* the diamond has been scheduled from Sink
C10_Witness == done /\ IsExample /\ nodes[4].visited

(***************************************************************************)
(* C11. For every acyclic graph and root, schedule(root) terminates: the   *)
(* recursive visit eventually returns for the root and the schedule is     *)
(* returned.                                                               *)
(***************************************************************************)
C11_Terminates == <>done

\* the call has returned after visits that recursed upstream
C11_Witness == done /\ ~Running /\ Ancestors(nodes, root) # {} /\ Len(order) > 1

(***************************************************************************)
(* C12. On a graph whose input connections contain a cycle reachable from  *)
(* the root, schedule(root) neither crashes nor loops forever: the         *)
(* traversal ends and a schedule is returned.                              *)
(***************************************************************************)
C12_CyclesHandled == (CycleReachable /\ ~Running) => done

(***************************************************************************)
(* C13. When an output buffer of a node is released to the pool, the       *)
(* node's step is already in the schedule and every input port connected   *)
(* to that output is already bound to the buffer.                          *)
(***************************************************************************)
\* the input ports <<m, k>> connected to output p of node n
PortsFedBy(n, p) ==
  {mk \in UNION {{<<m, k>> : k \in DOMAIN nodes[m].inputs} : m \in DOMAIN nodes} :
     nodes[mk[1]].inputs[mk[2]].connection =
       [node |-> n, port |-> nodes[n].outputs[p].name]}

Releasing == Running /\ Top.pc = "release"

C13_ReleasedAfterBound ==
  [][(Releasing /\ bufferStack' # bufferStack) =>
       /\ StepsOf(Top.node) # {}
       /\ \A mk \in PortsFedBy(Top.node, Top.idx) :
            nodes[mk[1]].inputs[mk[2]].buffer = nodes[Top.node].outputs[Top.idx].buffer]_vars

(***************************************************************************)
(* C14. Two calls of schedule(root) on the same graph, each with the       *)
(* transient fields cleared and its own empty pool, return schedules with  *)
(* the same sequence of nodes and the same buffer sharing: two bindings    *)
(* have one buffer in the first exactly when they have one in the second.  *)
(***************************************************************************)
C14_SameScheduleTwice ==
  (done /\ earlier # <<>>) =>
     /\ NodeSequence(earlier[1]) = NodeSequence(order)
     /\ SamePattern(earlier[1], order)

\* the second call has ended; its schedule has buffers shared between steps and
\* none of its buffers is a buffer of the first schedule
C14_Witness ==
  /\ done /\ earlier # <<>>
  /\ Len(order) >= 3
  /\ \E x, y \in Bindings(order) :
       /\ x[1] # y[1] /\ x[2] = "out" /\ y[2] = "out"
       /\ BufferAt(order, x) = BufferAt(order, y)
  /\ \A x \in Bindings(order) : \A y \in Bindings(earlier[1]) :
       BufferAt(order, x) # Undefined => BufferAt(order, x) # BufferAt(earlier[1], y)

(***************************************************************************)
(* C15. render(schedule) takes the steps in the order of the schedule,     *)
(* calls process once for each step, and calls delay(buffer, compensation) *)
(* for exactly the input bindings with a non-zero compensation, each       *)
(* before the process call of its step (and after that of the step before).*)
(***************************************************************************)
RenderEnded == done /\ rendering.step > Len(order)

ProcessCalls == SelectSeq(calls, LAMBDA c : c.op = "process")

\* the position in calls of the process call of step q; 0 for "step 0"
ProcessAt(q) ==
  IF q = 0 THEN 0 ELSE CHOOSE i \in DOMAIN calls : calls[i].op = "process" /\ calls[i].step = q

DelayCalls(q, k) ==
  {i \in DOMAIN calls : calls[i].op = "delay" /\ calls[i].step = q /\ calls[i].input = k}

NonZero(compensation) == IsNumber(compensation) /\ compensation # 0

C15_RenderCalls ==
  RenderEnded =>
    /\ [i \in DOMAIN ProcessCalls |-> ProcessCalls[i].step] = [q \in DOMAIN order |-> q]
    /\ \A q \in DOMAIN order : \A k \in DOMAIN order[q].inputs :
         LET assn == order[q].inputs[k]
         IN /\ Cardinality(DelayCalls(q, k)) = IF NonZero(assn.compensation) THEN 1 ELSE 0
            /\ \A i \in DelayCalls(q, k) :
                 /\ calls[i].buffer = assn.buffer
                 /\ calls[i].amount = assn.compensation
                 /\ ProcessAt(q - 1) < i
                 /\ i < ProcessAt(q)

\* render has ended on a schedule of several steps, with a delayed input and an
\* input that is not delayed
C15_Witness ==
  /\ RenderEnded
  /\ Len(order) >= 3
  /\ \E i \in DOMAIN calls : calls[i].op = "delay"
  /\ \E q \in DOMAIN order : \E k \in DOMAIN order[q].inputs :
       ~NonZero(order[q].inputs[k].compensation)

(***************************************************************************)
(* C16. acquireBuffer returns the buffer released last and not acquired    *)
(* again when the pool is not empty, and a new buffer, different from      *)
(* every buffer there is, when it is empty; the buffer returned is never   *)
(* one that is acquired and not yet released.                              *)
(***************************************************************************)
InPool == {bufferStack[i] : i \in DOMAIN bufferStack}

\* the output buffers a call of visit has acquired and not yet released
HeldBy(f) ==
  LET outputs == nodes[f.node].outputs
      from == IF f.pc = "release" THEN f.idx ELSE 1
      to == IF f.pc = "acquire" THEN f.idx - 1
            ELSE IF f.pc \in {"input", "bind", "release"} THEN Len(outputs) ELSE 0
  IN {outputs[k].buffer : k \in from..to}

Held == UNION {HeldBy(stack[i]) : i \in DOMAIN stack}

\* every buffer a port, a step or the pool refers to
Existing ==
  InPool \cup
  (UNION {{nodes[n].inputs[k].buffer : k \in DOMAIN nodes[n].inputs} \cup
          {nodes[n].outputs[k].buffer : k \in DOMAIN nodes[n].outputs} : n \in DOMAIN nodes}
   \ {Undefined})

AcquiringOutput == Running /\ Top.pc = "acquire"

AcquiringInput ==
  Running /\ Top.pc = "input" /\ ~HasConnection(nodes[Top.node].inputs[Top.idx])

\* the buffer the acquireBuffer() of this step returned
Acquired ==
  IF Top.pc = "acquire" THEN nodes'[Top.node].outputs[Top.idx].buffer
                        ELSE nodes'[Top.node].inputs[Top.idx].buffer

C16_AcquireIsLifoOrFresh ==
  [][(AcquiringOutput \/ AcquiringInput) =>
       /\ bufferStack # <<>> => Acquired = bufferStack[Len(bufferStack)]
       /\ bufferStack = <<>> => Acquired \notin Existing \cup {Undefined}
       /\ Acquired \notin Held]_vars

\* a call holds a buffer that it took from the pool after an earlier step had used
\* it, while a call further out holds a buffer of its own
C16_Witness ==
  /\ Running
  /\ Len(stack) >= 2
  /\ \E h \in HeldBy(Top) : \E b \in Bindings(order) : BufferAt(order, b) = h
  /\ \E i \in 1..(Len(stack) - 1) : HeldBy(stack[i]) # {}
  /\ created >= 2

(***************************************************************************)
(* C17. At every point of a traversal of an acyclic graph the free stack   *)
(* holds each buffer at most once: no buffer is released twice without an  *)
(* acquire in between.                                                     *)
(***************************************************************************)
C17_NoDoubleRelease ==
  \A i, j \in DOMAIN bufferStack : bufferStack[i] = bufferStack[j] => i = j

\* several buffers are free, one of them released for the second time at least:
\* two steps of the schedule have used it
C17_Witness ==
  /\ Len(bufferStack) >= 2
  /\ \E h \in InPool : \E x, y \in Bindings(order) :
       /\ x[1] # y[1] /\ x[2] = "out" /\ y[2] = "out"
       /\ BufferAt(order, x) = h /\ BufferAt(order, y) = h

(***************************************************************************)
(* C18. visit() of a node that is already visited changes nothing: not the *)
(* free stack, not the schedule, not a field of any node or port; it goes  *)
(* straight to the return statement and returns the node's stored latency  *)
(* and the stored buffers of its outputs.                                  *)
(***************************************************************************)
InVisited == Running /\ nodes[Top.node].visited

C18_VisitedNoSideEffects ==
  [][InVisited =>
       /\ UNCHANGED <<nodes, order, bufferStack, created>>
       /\ Top.pc \in {"enter", "return"}
       /\ Top.pc = "enter" => stack' = Goto([pc |-> "return", idx |-> 0])
       /\ Top.pc = "return" =>
            /\ ret'.latency = nodes[Top.node].latency
            /\ DOMAIN ret'.outputs = DOMAIN nodes[Top.node].outputs
            /\ \A k \in DOMAIN ret'.outputs :
                 ret'.outputs[k].buffer = nodes[Top.node].outputs[k].buffer]_vars

\* a second visit of a node is at its return statement: the node has its step, and
\* other steps were appended after it
C18_Witness ==
  /\ InVisited
  /\ Top.pc = "return"
  /\ StepsOf(Top.node) # {}
  /\ order[Len(order)].node # Top.node
  /\ nodes[Top.node].outputs # <<>>

(***************************************************************************)
(* C19. An unconnected input of a node in its first visit gets latency 0   *)
(* and a buffer from acquireBuffer, and the buffer is released before the  *)
(* next input is handled: it is then on top of the free stack, and the     *)
(* buffers acquired and not released are the same as before.               *)
(***************************************************************************)
\* the buffers created and not in the pool
InUse == (1..created) \ InPool

C19_UnconnectedInput ==
  [][AcquiringInput =>
       LET port == nodes'[Top.node].inputs[Top.idx]
       IN /\ ~nodes[Top.node].visited
          /\ port.latency = 0
          /\ port.buffer = IF bufferStack = <<>> THEN created + 1
                                                 ELSE bufferStack[Len(bufferStack)]
          /\ bufferStack' # <<>>
          /\ bufferStack'[Len(bufferStack')] = port.buffer
          /\ InUse' = InUse
          /\ Held' = Held]_vars

\* an unconnected input has just been handled, in a call that holds an output buffer:
\* the input's buffer is on top of the free stack
C19_Witness ==
  /\ Running
  /\ Top.pc \in {"input", "release"}
  /\ Held # {}
  /\ \E k \in DOMAIN nodes[Top.node].inputs :
       /\ ~HasConnection(nodes[Top.node].inputs[k])
       /\ nodes[Top.node].inputs[k].latency = 0
       /\ bufferStack # <<>>
       /\ nodes[Top.node].inputs[k].buffer = bufferStack[Len(bufferStack)]
       /\ nodes[Top.node].inputs[k].buffer \notin Held

(***************************************************************************)
(* C20. In a schedule for an acyclic graph, a buffer that one step writes  *)
(* as an output and a later step reads as a connected input is not an      *)
(* output buffer of any step between the two, nor of the reading step; and *)
(* two inputs of a step connected to different outputs have different      *)
(* buffers.                                                                *)
(***************************************************************************)
\* the connection of input k of the node of step r
ConnectionOf(r, k) == nodes[order[r].node].inputs[k].connection

\* the inputs of step r that are connected and bound to a buffer
BoundInputs(r) ==
  {k \in DOMAIN order[r].inputs :
     /\ ConnectionOf(r, k) # NoConnection
     /\ order[r].inputs[k].buffer # Undefined}

OutputBuffers(q) == {order[q].outputs[p].buffer : p \in DOMAIN order[q].outputs}

C20_NoOverwriteBeforeRead ==
  done =>
    \A r \in DOMAIN order :
      /\ \A k \in BoundInputs(r) :
           \A q \in (StepOf(ConnectionOf(r, k).node) + 1)..r :
             order[r].inputs[k].buffer \notin OutputBuffers(q)
      /\ \A k, l \in BoundInputs(r) :
           ConnectionOf(r, k) # ConnectionOf(r, l) =>
             order[r].inputs[k].buffer # order[r].inputs[l].buffer

(***************************************************************************)
(* C21. A second schedule(root) on a graph whose visited flags were not    *)
(* reset does not compile it again: no field of a node or port changes     *)
(* during the call, and the schedule it returns is empty.                  *)
(***************************************************************************)
InSecondCall == earlier # <<>> /\ Running

C21_SecondCallEmpty ==
  [][InSecondCall => (nodes' = nodes /\ order' = <<>>)]_vars

\* the second call has returned, after a first call that scheduled several nodes
C21_Witness ==
  /\ done /\ earlier # <<>>
  /\ Len(earlier[1]) >= 3
  /\ order = <<>>
  /\ \A n \in Reachable : nodes[n].visited

(***************************************************************************)
(* C22. When schedule(root) returns on an acyclic graph, every buffer      *)
(* acquired during the pass has been released: the free stack holds every  *)
(* buffer created during the pass exactly once, and its length is the      *)
(* number of buffers created.                                              *)
(***************************************************************************)
C22_AllReleasedAtReturn ==
  done =>
    /\ InPool = 1..created
    /\ Len(bufferStack) = created
    /\ Held = {}

\* schedule() has returned after a pass that created several buffers and used one
\* of them for two steps
C22_Witness ==
  /\ done
  /\ created >= 2
  /\ \E x, y \in Bindings(order) :
       /\ x[1] # y[1] /\ x[2] = "out" /\ y[2] = "out"
       /\ BufferAt(order, x) = BufferAt(order, y)

(***************************************************************************)
(* C23. The outputs of one step are bound to buffers that differ from one  *)
(* another, and from every output buffer of a node that was visited for    *)
(* the first time during the upstream recursion of the step's node.        *)
(* A node is first visited during the recursion of exactly the nodes whose *)
(* visits are in progress when its step is appended.                       *)
(***************************************************************************)
Finishing == Running /\ Top.pc = "finish"

\* the nodes whose visit is in progress around the innermost one
Enclosing == {stack[i].node : i \in 1..(Len(stack) - 1)}

PortBuffers(ports) == {ports[p].buffer : p \in DOMAIN ports}

C23_OutputsDistinct ==
  [][Finishing =>
       LET step == order'[Len(order')]
       IN /\ step.node = Top.node
          /\ \A p, q \in DOMAIN step.outputs :
               step.outputs[p].buffer = step.outputs[q].buffer => p = q
          /\ Undefined \notin PortBuffers(step.outputs)
          /\ \A n \in Enclosing :
               PortBuffers(nodes[n].outputs) \cap PortBuffers(step.outputs) = {}]_vars

\* the step of a node with two outputs has just been appended, during the visit of
\* a node that has outputs too
C23_Witness ==
  /\ Running /\ Top.pc = "return"
  /\ order # <<>>
  /\ order[Len(order)].node = Top.node
  /\ Len(order[Len(order)].outputs) >= 2
  /\ \E n \in Enclosing : nodes[n].outputs # <<>>
  /\ Len(order) >= 2

(***************************************************************************)
(* C24. For an acyclic graph with non-negative delays compiled from a      *)
(* freshly reset state: every compensation in the schedule is strictly     *)
(* positive; every node with a connected input has an input without        *)
(* compensation; and for every node latency(input) + compensation(input),  *)
(* an absent compensation counted as 0, is the same for all inputs and     *)
(* equals latency(node) - node.delay.                                      *)
(***************************************************************************)
OrZero(compensation) == IF compensation = Undefined THEN 0 ELSE compensation

C24_CompensationBalanced ==
  done =>
    \A q \in DOMAIN order :
      LET node == nodes[order[q].node]
          inputs == order[q].inputs
      IN /\ \A k \in DOMAIN inputs :
              inputs[k].compensation # Undefined =>
                (IsNumber(inputs[k].compensation) /\ inputs[k].compensation > 0)
         /\ (\E k \in DOMAIN node.inputs : HasConnection(node.inputs[k])) =>
              \E k \in DOMAIN inputs : inputs[k].compensation = Undefined
         /\ \A k \in DOMAIN inputs :
              /\ IsNumber(node.inputs[k].latency) /\ IsNumber(node.latency)
              /\ node.inputs[k].latency + OrZero(inputs[k].compensation) =
                   node.latency - node.delay

\* a scheduled node with a delay of its own has one input that is compensated and
\* one connected input that is not
C24_Witness ==
  /\ done
  /\ \E q \in DOMAIN order :
       /\ nodes[order[q].node].delay > 0
       /\ \E k, l \in DOMAIN order[q].inputs :
            /\ HasConnection(nodes[order[q].node].inputs[k])
            /\ HasConnection(nodes[order[q].node].inputs[l])
            /\ order[q].inputs[k].compensation # Undefined
            /\ order[q].inputs[l].compensation = Undefined

====
